---- MODULE Spec2Model ----
(***************************************************************************)
(* OMEGA database sync tool (sync.py): one run of main() as a state        *)
(* machine.  The environment chooses the configuration file, what the     *)
(* database answers to each query, what each HTTP attempt produces, and   *)
(* when the user presses Ctrl-C or Enter.  Two further specifications      *)
(* share the module: ChunkSpec applies chunk_data to small lists, and      *)
(* DiagSpec is one run of main() of run_diagnostics.py.                    *)
(***************************************************************************)
EXTENDS Integers, Sequences, FiniteSets, TLC

VARIABLES
    pc,           \* position of the single thread of control
    config_file,  \* what config.json holds (input, fixed for the run)
    conn,         \* the pyodbc connection: "none", "open" or "closed"
    i,            \* fetch_data: 1-based index of the next query
    data,         \* table name -> number of rows of its result list
    queries,      \* number of execute_query calls of the run (observer)
    qfailed,      \* tables whose query raised pyodbc.Error (observer)
    table_index,  \* sync_data_to_api: 1-based index into tables_to_sync
    chunks,       \* sync_data_to_api: lengths of the chunks of the current table
    chunk_index,  \* sync_data_to_api: 1-based index of the current chunk
    retry,        \* sync_data_to_api: attempts of the current chunk already used
    success,      \* sync_data_to_api: the local flag of the current chunk
    attempts,     \* classifications of the attempts of the chunk in progress (observer)
    backoff,      \* a time.sleep(2) completed since the last attempt (observer)
    total_posts,  \* number of requests.post calls of the run (observer)
    last_post,    \* <<table_index, chunk_index>> of the last POST (observer)
    ok_chunks,    \* <<table_index, chunk_index>> that got 200 success:true (observer)
    exhausted,    \* the chunk whose attempts all ended without success (observer)
    synced,       \* tables whose "synced successfully!" line was printed (observer)
    sync_result,  \* "none" until sync_data_to_api returns, then "True" / "False"
    caught,       \* which except clause of main has run: "none" if neither (observer)
    exit_code,    \* << >> while the process runs, then <<status>>
    uncaught,     \* "none", or the exception that left main() uncaught
    cd_list,      \* chunk_data: the argument data_list
    cd_size,      \* chunk_data: the argument chunk_size
    cd_result,    \* chunk_data: list(chunk_data(data_list, chunk_size))
    results,      \* test_api_endpoints: the list of result dicts
    probes,       \* what was sent to and came back from each endpoint (observer)
    errors,       \* test_api_endpoints: the list of results that are issues
    debug_mode,   \* test_api_endpoints: the summary's debug flag
    diag_result   \* "none" until test_api_endpoints returns, then "True" / "False"

vars == <<pc, config_file, conn, i, data, queries, qfailed, table_index,
          chunks, chunk_index, retry, success, attempts, backoff, total_posts,
          last_post, ok_chunks, exhausted, synced, sync_result, caught,
          exit_code, uncaught, cd_list, cd_size, cd_result, results, probes,
          errors, debug_mode, diag_result>>

\* ---------------------------------------------------------------- bounds

\* The database content of a run amounts to at most MaxChunks chunks in total.
MaxChunks == 2

\* At most MaxQueryErrors queries of a run raise pyodbc.Error.
MaxQueryErrors == 1

\* ---------------------------------------------------------------- constants

\* chunk_size=1000 at the call of chunk_data
chunk_size == 1000

\* for retry in range(3)
max_retries == 3

\* Exit status of an interpreter that ends on an uncaught KeyboardInterrupt:
\* 1 before Python 3.8, death by SIGINT (seen as 130) from 3.8 on.
UncaughtInterruptCodes == {1, 130}

\* fetch_data: the names of the `tables` list, in order
tables == <<"acc_product", "acc_invmast", "acc_invdetails", "acc_purchasemaster",
            "acc_purchasedetails", "acc_production", "acc_productiondetails">>

\* sync_data_to_api: tables_to_sync
tables_to_sync == <<"acc_product", "acc_invmast", "acc_invdetails",
                    "acc_purchasemaster", "acc_purchasedetails", "acc_production",
                    "acc_productiondetails">>

\* What config.json may hold: no file, no JSON, or a JSON document that has
\* all four required fields or lacks exactly one of them.
ConfigFiles == {"missing", "malformed", "no_dsn", "no_username", "no_password",
                "no_url", "complete"}

\* config['database']['dsn' | 'username' | 'password'] all resolve
HasDatabaseFields(cfg) == cfg \in {"no_url", "complete"}

\* config['api']['url'] resolves
HasApiUrl(cfg) == cfg \in {"no_dsn", "no_username", "no_password", "complete"}

\* Classifications of one attempt of requests.post + response handling:
\*   "ok"         status 200, body JSON with success true
\*   "soft"       status 200, body JSON with success false or absent
\*   "status"     a response with a status other than 200
\*   "exception"  requests.post raised (timeout, refused, DNS, ...), or the
\*                body of a status-200 response made response.json() raise
AttemptOutcomes == {"ok", "soft", "status", "exception"}

\* ---------------------------------------------------------------- chunking

Min(a, b) == IF a < b THEN a ELSE b

\* range(0, n, step) as the sequence of its values
\* range(0, n - n % step, step): the partial last slice is never started
Range0Floor(n, step) == [k \in 1..(n \div step) |-> (k - 1) * step]

Range0(n, step) == [k \in 1..((n + step - 1) \div step) |-> (k - 1) * step]

\* data_list[lo:hi] with 0 <= lo <= hi (Python slice, 0-based, hi clipped)
Slice(data_list, lo, hi) == SubSeq(data_list, lo + 1, Min(hi, Len(data_list)))

\* list(chunk_data(data_list, chunk_size))
chunk_data(data_list, size) ==
    LET starts == Range0(Len(data_list), size)
    IN  [k \in 1..Len(starts) |-> Slice(data_list, starts[k], starts[k] + size)]

\* A result list of n rows; rows are opaque, row k stands for the k-th record.
Rows(n) == [k \in 1..n |-> k]

\* Row counts a query may return: none, exactly one full chunk, and k full
\* chunks followed by a chunk of a single row, up to MaxChunks chunks.
RowChoices == {0, chunk_size} \cup {k * chunk_size + 1 : k \in 1..(MaxChunks - 1)}

\* ceil(n / chunk_size): the number of chunks a snapshot of n rows is due
NumChunks(n) == (n + chunk_size - 1) \div chunk_size

RECURSIVE SumChunks(_, _)
SumChunks(d, names) ==
    IF names = {} THEN 0
    ELSE LET t == CHOOSE x \in names : TRUE
         IN  NumChunks(d[t]) + SumChunks(d, names \ {t})

\* Chunks the snapshots fetched so far amount to
FetchedChunks == SumChunks(data, DOMAIN data)

\* No chunk
NoChunk == <<0, 0>>

\* ---------------------------------------------------------------- state

fetchVars == <<i, data, queries, qfailed>>
chunkVars == <<chunks, chunk_index, retry, success, attempts, backoff>>
postVars  == <<total_posts, last_post, ok_chunks, exhausted>>
syncVars  == <<table_index, chunkVars, postVars, synced, sync_result>>
endVars   == <<caught, exit_code, uncaught>>
cdVars    == <<cd_list, cd_size, cd_result>>
diagVars  == <<results, probes, errors, debug_mode, diag_result>>

\* chunk_data has not been called on its own
ChunkIdle ==
    /\ cd_list = << >>
    /\ cd_size = 1
    /\ cd_result = << >>

\* test_api_endpoints has not been called
DiagIdle ==
    /\ results = << >>
    /\ probes = << >>
    /\ errors = << >>
    /\ debug_mode = FALSE
    /\ diag_result = "none"

\* sync.py before main() has done anything
SyncIdle ==
    /\ conn = "none"
    /\ i = 1
    /\ data = << >>
    /\ queries = 0
    /\ qfailed = {}
    /\ table_index = 1
    /\ chunks = << >>
    /\ chunk_index = 1
    /\ retry = 0
    /\ success = FALSE
    /\ attempts = << >>
    /\ backoff = FALSE
    /\ total_posts = 0
    /\ last_post = NoChunk
    /\ ok_chunks = {}
    /\ exhausted = NoChunk
    /\ synced = {}
    /\ sync_result = "none"
    /\ caught = "none"
    /\ exit_code = << >>
    /\ uncaught = "none"

Init ==
    /\ pc = "load_config"
    /\ config_file \in ConfigFiles
    /\ SyncIdle
    /\ ChunkIdle
    /\ DiagIdle

\* The frame of fetch_data is left: its locals are gone
UnwindFetch == i' = 1

\* The frame of sync_data_to_api is left: its locals are gone
UnwindSync ==
    /\ table_index' = 1
    /\ chunks' = << >>
    /\ chunk_index' = 1
    /\ retry' = 0
    /\ success' = FALSE
    /\ attempts' = << >>
    /\ backoff' = FALSE

\* An exception other than KeyboardInterrupt reaches main's
\* `except Exception`, which prints and waits at input()
RaiseToMain ==
    /\ pc' = "error_prompt"
    /\ caught' = "Exception"

\* ---------------------------------------------------------------- main: start

\* load_config: open + json.load; FileNotFoundError and JSONDecodeError each
\* print and wait at input("Press Enter to exit...")
load_config ==
    /\ pc = "load_config"
    /\ pc' = IF config_file \in {"missing", "malformed"}
             THEN "config_prompt" ELSE "connect"
    /\ UNCHANGED <<cdVars, diagVars, config_file, conn, fetchVars, syncVars, endVars>>

\* connect_to_database: the three config lookups (a KeyError is no
\* pyodbc.Error and reaches main's except Exception), then pyodbc.connect,
\* whose pyodbc.Error is caught in place and leads to a prompt
connect_to_database ==
    /\ pc = "connect"
    /\ IF ~HasDatabaseFields(config_file)
       THEN /\ RaiseToMain
            /\ conn' = conn
       ELSE /\ \E connected \in BOOLEAN :
                 IF connected
                 THEN pc' = "fetch" /\ conn' = "open"
                 ELSE pc' = "connect_prompt" /\ conn' = conn
            /\ caught' = caught
    /\ UNCHANGED <<cdVars, diagVars, config_file, fetchVars, syncVars, exit_code, uncaught>>

\* ---------------------------------------------------------------- fetch_data

\* fetch_data returns after its first query
AfterQueryReturnsEarly(n) == "sync"

\* pc after the loop body of fetch_data for query number n
AfterQuery(n) == IF n < Len(tables) THEN "fetch" ELSE "sync"

\* A pyodbc.Error escapes execute_query and fetch_data
QueryErrorEscapes(n) == "error_prompt"

\* execute_query's except clause: a pyodbc.Error is caught and [] returned,
\* so the loop of fetch_data goes on
QueryErrorTarget(n) == AfterQuery(n)

\* data[table_name] = results, and the loop of fetch_data goes on
StoreResults(n) ==
    /\ data' = (tables[i] :> n) @@ data
    /\ i' = IF i < Len(tables) THEN i + 1 ELSE 1
    /\ caught' = caught

\* fetch_data is left by an exception: main's `data` is never assigned
AbortFetch ==
    /\ data' = << >>
    /\ UnwindFetch
    /\ caught' = "Exception"

\* One iteration of the loop of fetch_data: execute_query returns the rows,
\* or catches pyodbc.Error and returns [], or raises something else.
execute_query ==
    /\ pc = "fetch"
    /\ queries' = queries + 1
    /\ \/ \E n \in RowChoices :
            /\ FetchedChunks + NumChunks(n) <= MaxChunks
            /\ StoreResults(n)
            /\ qfailed' = qfailed
            /\ pc' = AfterQuery(i)
       \/ /\ Cardinality(qfailed) < MaxQueryErrors
          /\ qfailed' = qfailed \cup {tables[i]}
          /\ pc' = QueryErrorTarget(i)
          /\ IF pc' = "error_prompt" THEN AbortFetch ELSE StoreResults(0)
       \/ /\ pc' = "error_prompt"
          /\ qfailed' = qfailed
          /\ AbortFetch
    /\ UNCHANGED <<cdVars, diagVars, config_file, conn, syncVars, exit_code, uncaught>>

\* ---------------------------------------------------------------- sync_data_to_api

\* return <value> from sync_data_to_api: main goes on at conn.close()
Return(value) ==
    /\ pc' = "close"
    /\ sync_result' = value
    /\ UnwindSync

\* Entry of sync_data_to_api: config['api']['url']; the KeyError of a missing
\* field is caught by the function's own except Exception, which returns False
sync_data_to_api ==
    /\ pc = "sync"
    /\ IF HasApiUrl(config_file)
       THEN /\ pc' = "table"
            /\ UNCHANGED <<table_index, chunkVars, sync_result>>
       ELSE Return("False")
    /\ UNCHANGED <<cdVars, diagVars, config_file, conn, fetchVars, postVars, synced, endVars>>

\* Only a missing snapshot counts as no data
NoDataOnlyIfMissing(n) == FALSE

\* `if not table_data:` for a result list of n rows
NoData(n) == n = 0

\* Head of `for table_index, table_name in enumerate(tables_to_sync, 1)`:
\* return True after the last table; skip a table that is absent or empty;
\* otherwise chunk it and enter the retry loop of its first chunk
next_table ==
    /\ pc = "table"
    /\ IF table_index > Len(tables_to_sync)
       THEN Return("True")
       ELSE LET table_name == tables_to_sync[table_index]
            IN  IF table_name \notin DOMAIN data \/ NoData(data[table_name])
                THEN /\ table_index' = table_index + 1
                     /\ pc' = "table"
                     /\ UNCHANGED <<chunkVars, sync_result>>
                ELSE LET cs == chunk_data(Rows(data[table_name]), chunk_size)
                     IN  /\ chunks' = [k \in 1..Len(cs) |-> Len(cs[k])]
                         /\ chunk_index' = 1
                         /\ retry' = 0
                         /\ success' = FALSE
                         /\ attempts' = << >>
                         /\ backoff' = FALSE
                         /\ pc' = "post"
                         /\ UNCHANGED <<table_index, sync_result>>
    /\ UNCHANGED <<cdVars, diagVars, config_file, conn, fetchVars, postVars, synced, endVars>>

\* The status test ignores the success field of the body
SucceededOnStatus(o) == o \in {"ok", "soft"}

\* `if response.status_code == 200` and `response_data.get('success', False)`
Succeeded(o) == o = "ok"

\* The retry loop has no break
BreakNever(o) == FALSE

\* `break` of the retry loop
Break(o) == Succeeded(o)

\* Only the except clause sleeps
SleepsOnExceptionOnly(o) == o = "exception"

\* The attempts that end in time.sleep(2): the else branch of the status
\* test and the except Exception clause
Sleeps(o) == o \in {"status", "exception"}

\* range(4)
HasNextRetryOffByOne(r) == r + 1 <= max_retries

\* `for retry in range(3)`: another iteration follows iteration r (0-based)
HasNextRetry(r) == r + 1 < max_retries

\* One attempt: requests.post and the classification of what came back
post ==
    /\ pc = "post"
    /\ \E o \in AttemptOutcomes :
         /\ attempts' = Append(attempts, o)
         /\ success' = (success \/ Succeeded(o))
         /\ ok_chunks' = IF o = "ok"
                         THEN ok_chunks \cup {<<table_index, chunk_index>>}
                         ELSE ok_chunks
         /\ exhausted' = IF o # "ok" /\ Len(attempts) + 1 = max_retries
                                     /\ <<table_index, chunk_index>> \notin ok_chunks
                         THEN <<table_index, chunk_index>>
                         ELSE exhausted
         /\ IF Break(o)
            THEN pc' = "check" /\ retry' = retry
            ELSE IF Sleeps(o)
            THEN pc' = "sleep" /\ retry' = retry
            ELSE /\ retry' = retry + 1
                 /\ pc' = IF HasNextRetry(retry) THEN "post" ELSE "check"
    /\ total_posts' = total_posts + 1
    /\ last_post' = <<table_index, chunk_index>>
    /\ backoff' = FALSE
    /\ UNCHANGED <<cdVars, diagVars, config_file, conn, fetchVars, table_index, chunks,
                   chunk_index, synced, sync_result, endVars>>

\* time.sleep(2) runs to its end, then the next iteration or the loop's end
sleep ==
    /\ pc = "sleep"
    /\ backoff' = TRUE
    /\ retry' = retry + 1
    /\ pc' = IF HasNextRetry(retry) THEN "post" ELSE "check"
    /\ UNCHANGED <<cdVars, diagVars, config_file, conn, fetchVars, table_index, chunks,
                   chunk_index, success, attempts, postVars, synced,
                   sync_result, endVars>>

\* The failure of a chunk is ignored
FailedNever(s) == FALSE

\* `if not success:` after the retry loop
Failed(s) == ~s

\* After the retry loop: `if not success: return False`; else the next
\* chunk, or the table's "synced successfully!" and the next table
check_chunk ==
    /\ pc = "check"
    /\ IF Failed(success)
       THEN /\ Return("False")
            /\ synced' = synced
       ELSE IF chunk_index < Len(chunks)
       THEN /\ chunk_index' = chunk_index + 1
            /\ retry' = 0
            /\ success' = FALSE
            /\ attempts' = << >>
            /\ backoff' = FALSE
            /\ pc' = "post"
            /\ UNCHANGED <<table_index, chunks, synced, sync_result>>
       ELSE /\ synced' = synced \cup {tables_to_sync[table_index]}
            /\ table_index' = table_index + 1
            /\ pc' = "table"
            /\ UNCHANGED <<chunkVars, sync_result>>
    /\ UNCHANGED <<cdVars, diagVars, config_file, conn, fetchVars, postVars, endVars>>

\* ---------------------------------------------------------------- main: end

\* sys.exit(status): SystemExit is neither Exception nor KeyboardInterrupt,
\* so it leaves main() and ends the process with that status
Exit(status) ==
    /\ pc' = "exited"
    /\ exit_code' = <<status>>
    /\ UNCHANGED <<caught, uncaught>>

\* `if success is not None:`
SuccessBranchOnAnyResult == sync_result # "none"

\* `if success:` in main
SuccessBranch == sync_result = "True"

\* conn.close(), then the branch on `success`
close ==
    /\ pc = "close"
    /\ conn' = "closed"
    /\ pc' = IF SuccessBranch THEN "countdown" ELSE "failed_prompt"
    /\ UNCHANGED <<cdVars, diagVars, config_file, fetchVars, syncVars, endVars>>

\* The five time.sleep(1) of the success branch run to their end; sys.exit(0)
countdown ==
    /\ pc = "countdown"
    /\ Exit(0)
    /\ UNCHANGED <<cdVars, diagVars, config_file, conn, fetchVars, syncVars>>

\* The input() prompts that are inside main's try block: those of
\* load_config, of connect_to_database and of the failure branch of main
TryPrompts == {"config_prompt", "connect_prompt", "failed_prompt"}

\* The input() prompts of main's two except clauses, outside any try block
HandlerPrompts == {"interrupt_prompt", "error_prompt"}

\* Enter is pressed at a prompt: the sys.exit(1) after it runs
press_enter ==
    /\ pc \in TryPrompts \cup HandlerPrompts
    /\ Exit(1)
    /\ UNCHANGED <<cdVars, diagVars, config_file, conn, fetchVars, syncVars>>

\* Where main's try block is executing or waiting
TryPcs == {"load_config", "connect", "fetch", "sync", "table", "post", "sleep",
           "check", "close", "countdown"} \cup TryPrompts

\* Ctrl-C while main's try block runs: KeyboardInterrupt is no Exception, so
\* it passes every `except Exception` and reaches main's
\* `except KeyboardInterrupt`, which prints and waits at input()
keyboard_interrupt ==
    /\ pc \in TryPcs
    /\ pc' = "interrupt_prompt"
    /\ caught' = "KeyboardInterrupt"
    /\ IF pc = "fetch"
       THEN data' = << >> /\ UnwindFetch
       ELSE UNCHANGED <<data, i>>
    /\ UnwindSync
    /\ UNCHANGED <<cdVars, diagVars, config_file, conn, queries, qfailed, postVars, synced,
                   sync_result, exit_code, uncaught>>

\* input() inside the try block raises EOFError (stdin closed): an Exception,
\* caught by main's except Exception
prompt_eof ==
    /\ pc \in TryPrompts
    /\ RaiseToMain
    /\ UNCHANGED <<cdVars, diagVars, config_file, conn, fetchVars, syncVars, exit_code, uncaught>>

\* Ctrl-C or EOF at the input() of one of main's except clauses: nothing
\* encloses it, the exception leaves main() and the interpreter ends on it
handler_fault ==
    /\ pc \in HandlerPrompts
    /\ \/ /\ uncaught' = "KeyboardInterrupt"
          /\ \E status \in UncaughtInterruptCodes : exit_code' = <<status>>
       \/ /\ uncaught' = "EOFError"
          /\ exit_code' = <<1>>
    /\ pc' = "exited"
    /\ UNCHANGED <<cdVars, diagVars, config_file, conn, fetchVars, syncVars, caught>>

Next ==
    \/ load_config
    \/ connect_to_database
    \/ execute_query
    \/ sync_data_to_api
    \/ next_table
    \/ post
    \/ sleep
    \/ check_chunk
    \/ close
    \/ countdown
    \/ press_enter
    \/ keyboard_interrupt
    \/ prompt_eof
    \/ handler_fault

Spec == Init /\ [][Next]_vars

\* ---------------------------------------------------------------- properties

\* The chunk the retry loop is working on
CurrentChunk == <<table_index, chunk_index>>

\* Position of a table in tables_to_sync
TableIndex(name) == CHOOSE t \in 1..Len(tables_to_sync) : tables_to_sync[t] = name

\* Every chunk the snapshot of table number t is due got a success response
AllChunksOk(t) ==
    \A c \in 1..NumChunks(data[tables_to_sync[t]]) : <<t, c>> \in ok_chunks

\* The pcs inside sync_data_to_api
SyncPcs == {"sync", "table", "post", "sleep", "check"}

\* C1: fail-fast per table. Once a chunk has used all 3 attempts without a
\* success response, the last POST of the run stays the third attempt of
\* that chunk (no POST for a later chunk of the table, nor for any other),
\* and sync_data_to_api is on its way to `return False` or has returned
\* False; only a Ctrl-C of the user takes it off that way.
C1_FailFast ==
    exhausted # NoChunk =>
        /\ last_post = exhausted
        /\ sync_result # "True"
        /\ \/ sync_result = "False"
           \/ pc \in {"sleep", "check"} /\ CurrentChunk = exhausted
           \/ caught = "KeyboardInterrupt"

\* C1 witness: a two-chunk table whose first chunk ran out of attempts; the
\* function has returned False and the second chunk was never posted.
C1_Witness ==
    /\ sync_result = "False"
    /\ exhausted # NoChunk
    /\ exhausted[2] < NumChunks(data[tables_to_sync[exhausted[1]]])
    /\ last_post = exhausted

\* C2: bounded retry. A chunk never gets more than 3 POSTs, each iteration of
\* the retry loop issues exactly one, and at the end of the loop the chunk
\* counts as failed exactly when 3 attempts were made and none of them was a
\* status-200 success:true; a failure reported by sync_data_to_api (with
\* api.url present) is the failure of such a chunk.
C2_BoundedRetry ==
    /\ Len(attempts) <= max_retries
    /\ pc \in {"post", "sleep", "check"} =>
         Len(attempts) = retry + (IF pc = "sleep" \/ (pc = "check" /\ success)
                                  THEN 1 ELSE 0)
    /\ pc = "check" =>
         (~success <=> /\ Len(attempts) = max_retries
                       /\ \A k \in 1..Len(attempts) : attempts[k] # "ok")
    /\ pc = "check" /\ ~success => exhausted = CurrentChunk
    /\ sync_result = "False" /\ HasApiUrl(config_file) =>
         exhausted # NoChunk /\ exhausted = last_post
    /\ exhausted # NoChunk /\ sync_result # "none" => sync_result = "False"

\* C2 witness: the retry loop ended after a transport error, a non-200
\* status and a soft failure: three POSTs, chunk failed.
C2_Witness ==
    /\ pc = "check"
    /\ attempts = <<"exception", "status", "soft">>
    /\ ~success

\* C3: success ends the retry loop. If attempt k of a chunk is a status-200
\* success:true, it is the last attempt of that chunk (exactly k POSTs),
\* k <= 3, the loop has been left with success set, and the chunk (the one
\* of the last POST) is not the one the run fails on.
C3_SuccessEndsRetry ==
    \A k \in 1..Len(attempts) :
        attempts[k] = "ok" =>
            /\ k = Len(attempts)
            /\ k <= max_retries
            /\ \A j \in 1..(k - 1) : attempts[j] # "ok"
            /\ success
            /\ pc \in {"check", "table"}
            /\ pc = "check" => last_post = CurrentChunk
            /\ last_post \in ok_chunks
            /\ exhausted # last_post

\* C3 witness: two transport errors, then success on the third attempt.
C3_Witness ==
    /\ pc = "check"
    /\ attempts = <<"exception", "exception", "ok">>
    /\ success
    /\ retry = 2

\* C4: whole-run success. sync_data_to_api has returned True only if every
\* chunk of every table with a non-empty snapshot got a status-200
\* success:true response, and a table is in the "synced successfully" set
\* only if it is non-empty and all its chunks got one.
C4_WholeRunSuccess ==
    /\ sync_result = "True" =>
         /\ DOMAIN data = {tables_to_sync[t] : t \in 1..Len(tables_to_sync)}
         /\ \A t \in 1..Len(tables_to_sync) : AllChunksOk(t)
         /\ exhausted = NoChunk
    /\ \A name \in synced :
         /\ name \in DOMAIN data
         /\ data[name] > 0
         /\ AllChunksOk(TableIndex(name))

\* C4 witness: a run that returned True after syncing MaxChunks chunks.
C4_Witness ==
    /\ sync_result = "True"
    /\ synced # {}
    /\ Cardinality(ok_chunks) = MaxChunks

\* C5 (as claimed): soft failure handling. When the next attempt is about to
\* be issued after a status-200 success:false, the soft failure has consumed
\* an attempt and a 2-second backoff has taken place since.
C5_SoftFailureBacksOff ==
    (pc = "post" /\ Len(attempts) > 0 /\ attempts[Len(attempts)] = "soft") =>
        /\ retry = Len(attempts)
        /\ backoff

\* C6 (as claimed): database connection cleanup. A process that ends after
\* connect_to_database succeeded has closed the connection.
C6_ConnectionClosedOnExit ==
    pc = "exited" /\ conn # "none" => conn = "closed"

\* C7 (as claimed): configuration errors are fatal before any I/O. With the
\* file missing, malformed or lacking a required field, no connection is
\* opened, no query executed and no POST issued, and the exit code is not 0.
C7_ConfigErrorBeforeIO ==
    config_file # "complete" =>
        /\ conn = "none"
        /\ queries = 0
        /\ total_posts = 0
        /\ pc = "exited" => exit_code # <<0>>

\* C8 (as claimed): the process exits with code 0 if and only if
\* sync_data_to_api returned True.
C8_ExitZeroIffSyncTrue ==
    pc = "exited" => (exit_code = <<0>> <=> sync_result = "True")

\* C8 (amended): the process exits with code 0 exactly when sync_data_to_api
\* returned True and neither except clause of main ran afterwards (a Ctrl-C
\* during the closing countdown gives 1); every other ending has a
\* non-zero code, and that code is 1 whenever the process ends through one
\* of the sys.exit calls (table-transfer failure, exception or interrupt
\* caught by main).
C8_ExitCodes ==
    pc = "exited" =>
        /\ Len(exit_code) = 1
        /\ exit_code = <<0>> <=> (sync_result = "True" /\ caught = "none")
        /\ uncaught = "none" /\ exit_code # <<0>> => exit_code = <<1>>

\* C8 witness: sync_data_to_api returned True, the user pressed Ctrl-C during
\* the countdown and Enter at the prompt: exit code 1.
C8_Witness ==
    /\ pc = "exited"
    /\ sync_result = "True"
    /\ caught = "KeyboardInterrupt"
    /\ uncaught = "none"
    /\ exit_code = <<1>>

\* C9 (as claimed): no unhandled fault. A run that met an interrupt or an
\* exception ends with a non-zero exit code and without an exception
\* leaving main() uncaught.
C9_NoUnhandledFault ==
    /\ uncaught = "none"
    /\ pc = "exited" /\ caught # "none" => exit_code # <<0>>

\* C10: query failure is recovered per table. A table whose query raised a
\* database error has the empty snapshot; the failure does not end the read
\* phase (the next query follows, and main's exception handler is not
\* entered on account of it); a run that reaches sync_data_to_api has
\* executed all 7 queries; no POST is issued for such a table, it is not
\* reported as synced, and sync_data_to_api returns False only for an
\* exhausted chunk or a missing api.url, never for a failed query.
C10_QueryFailureRecovered ==
    /\ \A name \in qfailed : name \in DOMAIN data => data[name] = 0
    /\ queries \in 0..Len(tables)
    /\ (queries > 0 /\ tables[queries] \in qfailed) =>
         /\ caught = "none" /\ queries < Len(tables) =>
              pc = "fetch" /\ i = queries + 1
         /\ caught = "none" \/ queries = Len(tables) =>
              tables[queries] \in DOMAIN data
         /\ queries < Len(tables) => caught # "Exception"
    /\ pc \in SyncPcs \/ sync_result # "none" =>
         /\ queries = Len(tables)
         /\ DOMAIN data = {tables[t] : t \in 1..Len(tables)}
    /\ last_post # NoChunk =>
         /\ tables_to_sync[last_post[1]] \notin qfailed
         /\ data[tables_to_sync[last_post[1]]] > 0
    /\ synced \cap qfailed = {}
    /\ sync_result = "False" => exhausted # NoChunk \/ ~HasApiUrl(config_file)

\* C10 witness: the first query failed, the second table was synced, and
\* sync_data_to_api returned True.
C10_Witness ==
    /\ sync_result = "True"
    /\ "acc_product" \in qfailed
    /\ "acc_invmast" \in synced

\* All snapshots of a completed read phase are empty
AllEmpty ==
    /\ DOMAIN data = {tables[t] : t \in 1..Len(tables)}
    /\ \A name \in DOMAIN data : data[name] = 0

\* C11: an empty snapshot is a vacuous success. No POST is ever issued for a
\* table whose snapshot has zero rows and the retry loop is never entered
\* for it; the table loop passes it (every table before the current one is
\* empty or synced) and it is never the table the run fails on; with all
\* snapshots empty no POST is issued at all and sync_data_to_api, given
\* api.url, returns nothing but True.
C11_EmptySnapshotVacuous ==
    /\ last_post # NoChunk => data[tables_to_sync[last_post[1]]] > 0
    /\ pc \in {"post", "sleep", "check"} =>
         /\ data[tables_to_sync[table_index]] > 0
         /\ Len(chunks) > 0
         /\ chunk_index \in 1..Len(chunks)
    /\ pc \in {"table", "post", "sleep", "check"} =>
         \A t \in 1..(table_index - 1) :
             data[tables_to_sync[t]] = 0 \/ tables_to_sync[t] \in synced
    /\ exhausted # NoChunk => data[tables_to_sync[exhausted[1]]] > 0
    /\ \A name \in synced : data[name] > 0
    /\ AllEmpty =>
         /\ total_posts = 0
         /\ sync_result = "False" => ~HasApiUrl(config_file)
    /\ sync_result = "True" =>
         synced = {name \in DOMAIN data : data[name] > 0}

\* C11 witness: all seven snapshots are empty (none through a failed query)
\* and sync_data_to_api returned True without a single POST.
C11_Witness ==
    /\ AllEmpty
    /\ qfailed = {}
    /\ sync_result = "True"
    /\ total_posts = 0

\* Chunk a comes before chunk b in (table position, chunk index) order
Before(a, b) == a[1] < b[1] \/ (a[1] = b[1] /\ a[2] < b[2])

\* The chunks the snapshots of a completed read phase are due
DueChunks ==
    UNION {{<<t, c>> : c \in 1..NumChunks(data[tables_to_sync[t]])} :
           t \in 1..Len(tables_to_sync)}

\* State part of C17: the chunk of the last POST is a due chunk, every due
\* chunk before it got a success response, and no chunk after it got one
DeliveredInOrder ==
    last_post # NoChunk =>
        /\ last_post \in DueChunks
        /\ \A x \in DueChunks : Before(x, last_post) => x \in ok_chunks
        /\ \A x \in ok_chunks : x = last_post \/ Before(x, last_post)
        /\ pc \in {"sleep", "check"} => last_post = CurrentChunk

\* Step part of C17: a step issues at most one POST; it goes to the chunk of
\* the previous POST, which then has no success response yet, or to a later
\* chunk in (table, chunk) order
PostsAdvance ==
    total_posts' # total_posts =>
        /\ total_posts' = total_posts + 1
        /\ pc = "post"
        /\ \/ last_post' = last_post /\ last_post \notin ok_chunks
           \/ last_post = NoChunk
           \/ Before(last_post, last_post') /\ last_post \in ok_chunks

\* C17: strictly sequential, ordered delivery. The POSTs of a run follow the
\* (table position, chunk index) order; chunk k+1 of a table is posted only
\* after chunk k got a success response, a table only after every chunk of
\* every earlier non-empty table got one, and requests are issued one at a
\* time by the single thread of control.
C17_OrderedDelivery == []DeliveredInOrder /\ [][PostsAdvance]_vars

\* C17 witness: the second of two due chunks has just been posted, the
\* first one having succeeded.
C17_Witness ==
    /\ last_post # NoChunk
    /\ Cardinality(DueChunks) = 2
    /\ Cardinality(ok_chunks) = 1
    /\ last_post \in DueChunks \ ok_chunks
    /\ \E x \in ok_chunks : Before(x, last_post)

\* C18: backoff after a hard failure. An attempt that ended in an exception
\* or in a status other than 200 is followed by time.sleep(2), which has
\* completed when the next attempt of the chunk is issued and when the retry
\* loop ends; a sleep only ever follows such an attempt, so none follows a
\* success.
C18_BackoffAfterHardFailure ==
    LET n == Len(attempts) IN
    /\ pc = "sleep" => n > 0 /\ attempts[n] \in {"status", "exception"} /\ ~backoff
    /\ (pc \in {"post", "check"} /\ n > 0 /\ attempts[n] \in {"status", "exception"})
         => backoff
    /\ backoff => n > 0 /\ attempts[n] \in {"status", "exception"}
    /\ (n > 0 /\ attempts[n] = "ok") => ~backoff /\ pc # "sleep"

\* C18 witness: a non-200 status, the backoff, and the next attempt of the
\* same chunk about to be issued.
C18_Witness ==
    /\ pc = "post"
    /\ attempts = <<"status">>
    /\ backoff
    /\ retry = 1

\* C19: run-level abort on chunk exhaustion. After a chunk has failed all 3
\* attempts, no table that comes later in tables_to_sync is ever posted to,
\* gets a success response or is reported as synced, and sync_data_to_api
\* never moves on to another table: it returns False (unless Ctrl-C ends it).
C19_RunLevelAbort ==
    exhausted # NoChunk =>
        /\ last_post[1] = exhausted[1]
        /\ \A x \in ok_chunks : Before(x, exhausted)
        /\ \A name \in synced : TableIndex(name) < exhausted[1]
        /\ pc \in {"sleep", "check"} => table_index = exhausted[1]
        /\ pc \notin {"table", "post", "countdown"}
        /\ sync_result \in {"none", "False"}

\* C19 witness: the run failed on a table that is followed by a non-empty
\* table, which was never posted to.
C19_Witness ==
    /\ sync_result = "False"
    /\ exhausted # NoChunk
    /\ \E t \in (exhausted[1] + 1)..Len(tables_to_sync) :
           data[tables_to_sync[t]] > 0
    /\ last_post = exhausted

\* C20: the read phase precedes the transfer phase. A POST is only issued
\* after all 7 queries were executed and no query is executed once
\* sync_data_to_api has been entered; the connection is open throughout
\* sync_data_to_api and is closed only after it has returned.
C20_ReadBeforeTransfer ==
    /\ total_posts > 0 => queries = Len(tables)
    /\ pc = "fetch" => total_posts = 0 /\ sync_result = "none" /\ conn = "open"
    /\ pc \in SyncPcs => queries = Len(tables) /\ conn = "open"
    /\ queries > 0 => conn # "none"
    /\ conn = "closed" => sync_result # "none" /\ queries = Len(tables)
    /\ pc = "close" => conn = "open" /\ sync_result # "none"

\* C20 witness: a POST has been issued, after 7 queries, with the connection
\* open.
C20_Witness ==
    /\ pc = "check"
    /\ total_posts > 0
    /\ queries = Len(tables)
    /\ conn = "open"


(***************************************************************************)
(* chunk_data on its own: the generator of sync_data_to_api applied to     *)
(* every list of at most MaxLen rows with every chunk size up to MaxSize.  *)
(***************************************************************************)
MaxLen == 4
MaxSize == 3

RowValues == {"r1", "r2"}

RowLists == UNION {[1..n -> RowValues] : n \in 0..MaxLen}

ChunkInit ==
    /\ pc = "chunk_data"
    /\ config_file = "complete"
    /\ SyncIdle
    /\ DiagIdle
    /\ cd_list \in RowLists
    /\ cd_size \in 1..MaxSize
    /\ cd_result = << >>

\* list(chunk_data(data_list, chunk_size))
call_chunk_data ==
    /\ pc = "chunk_data"
    /\ cd_result' = chunk_data(cd_list, cd_size)
    /\ pc' = "chunked"
    /\ UNCHANGED <<cd_list, cd_size, diagVars, config_file, conn, fetchVars,
                   syncVars, endVars>>

ChunkNext == call_chunk_data

ChunkSpec == ChunkInit /\ [][ChunkNext]_vars

CeilDiv(n, c) == IF n % c = 0 THEN n \div c ELSE (n \div c) + 1

RECURSIVE Concat(_)
Concat(lists) ==
    IF lists = << >> THEN << >> ELSE Head(lists) \o Concat(Tail(lists))

\* C12: chunk_data splits a list of N rows with chunk size C into
\* ceil(N / C) chunks; every chunk but the last has exactly C rows, the last
\* has N mod C rows (C when N is a positive multiple of C), and the chunks
\* concatenated in order give back the list, nothing dropped, doubled or
\* reordered.
C12_ChunkPartition ==
    pc = "chunked" =>
        LET N == Len(cd_list)
            C == cd_size
            K == Len(cd_result)
        IN  /\ K = CeilDiv(N, C)
            /\ \A k \in 1..(K - 1) : Len(cd_result[k]) = C
            /\ K > 0 => Len(cd_result[K]) = (IF N % C = 0 THEN C ELSE N % C)
            /\ \A k \in 1..K : cd_result[k] =
                   [j \in 1..Len(cd_result[k]) |-> cd_list[(k - 1) * C + j]]
            /\ Concat(cd_result) = cd_list

\* C12 witness: four distinct-looking rows cut by three: a full chunk and a
\* shorter last one
C12_Witness ==
    /\ pc = "chunked"
    /\ cd_list = <<"r1", "r2", "r2", "r1">>
    /\ cd_size = 3
    /\ cd_result = <<(<<"r1", "r2", "r2">>), (<<"r1">>)>>


(***************************************************************************)
(* run_diagnostics.py: main() loads the configuration, test_api_endpoints  *)
(* probes the eight endpoints one after the other, writes its summary and  *)
(* returns the readiness; main waits for Enter and returns the exit code.  *)
(***************************************************************************)
MaxFaults == 2

DiagConfigFiles == {"missing", "malformed", "no_url", "no_key", "complete"}

\* config['api']['url'] and config['api']['key'] both exist
HasApiUrlAndKey(cfg) == cfg \notin {"missing", "malformed", "no_url", "no_key"}

endpoints ==
    << [endpoint |-> "/api/sync/products/clear",       method |-> "DELETE"],
       [endpoint |-> "/api/sync/products",             method |-> "POST"],
       [endpoint |-> "/api/sync/productbatches/clear", method |-> "DELETE"],
       [endpoint |-> "/api/sync/productbatches",       method |-> "POST"],
       [endpoint |-> "/api/sync/masters/clear",        method |-> "DELETE"],
       [endpoint |-> "/api/sync/masters",              method |-> "POST"],
       [endpoint |-> "/api/sync/users/clear",          method |-> "DELETE"],
       [endpoint |-> "/api/sync/users",                method |-> "POST"] >>

StatusCodes == {200, 499, 500}

\* What one requests.options call can end in: a response (its status code,
\* and whether "<code>DEBUG = True</code>" occurs in response.text), or one
\* of the exceptions the loop body distinguishes.
Responses ==
    [kind : {"response"}, status_code : StatusCodes, marker : BOOLEAN]

Raised ==
    [kind : {"Timeout", "ConnectionError", "Exception"}]

ProbeOutcomes == Responses \cup Raised

PlainResponse == [kind |-> "response", status_code |-> 200, marker |-> FALSE]

RECURSIVE Faults(_)
Faults(sent) ==
    IF sent = << >> THEN 0
    ELSE (IF Head(sent).outcome = PlainResponse THEN 0 ELSE 1) + Faults(Tail(sent))

\* requests.<method>(url, ...): the declared verb is sent
ProbeVerbDeclared(method) == method

\* both branches of the loop body call requests.options
ProbeVerb(method) == "OPTIONS"

IsAvailable(status_code) == status_code < 500

\* the marker only counts on a 200 response
IsDebugOn200(o) == o.marker /\ o.status_code = 200

IsDebug(o) == o.marker

\* one dict appended to results
Result(ep, o) ==
    IF o.kind = "response"
    THEN [endpoint    |-> ep.endpoint,
          method      |-> ep.method,
          status_code |-> o.status_code,
          status      |-> IF IsAvailable(o.status_code) THEN "AVAILABLE" ELSE "ERROR",
          debug_mode  |-> IsDebug(o)]
    ELSE [endpoint    |-> ep.endpoint,
          method      |-> ep.method,
          status      |-> CASE o.kind = "Timeout"         -> "TIMEOUT"
                            [] o.kind = "ConnectionError" -> "CONNECTION ERROR"
                            [] OTHER                      -> "ERROR: exception",
          debug_mode  |-> FALSE]

\* an exception ends the loop
ProbeLoopStopsOnRaise(k, o) ==
    IF k < Len(endpoints) /\ o.kind = "response" THEN "probe" ELSE "summary"

\* the for loop goes on to the next endpoint whatever the probe ended in
ProbeLoopNext(k, o) == IF k < Len(endpoints) THEN "probe" ELSE "summary"

ReadyAlways(errs) == TRUE

\* return len(errors) == 0
Ready(errs) == Len(errs) = 0

IsIssue(r) == r.status # "AVAILABLE"

DiagInit ==
    /\ pc = "diag_load_config"
    /\ config_file \in DiagConfigFiles
    /\ SyncIdle
    /\ ChunkIdle
    /\ DiagIdle

diag_load_config ==
    /\ pc = "diag_load_config"
    /\ IF config_file \in {"missing", "malformed"}
       THEN /\ pc' = "exited"
            /\ exit_code' = <<1>>
       ELSE /\ pc' = "diag_test"
            /\ UNCHANGED exit_code
    /\ UNCHANGED <<cdVars, diagVars, config_file, conn, fetchVars, syncVars,
                   caught, uncaught>>

test_api_endpoints ==
    /\ pc = "diag_test"
    /\ IF HasApiUrlAndKey(config_file)
       THEN /\ pc' = "probe"
            /\ UNCHANGED diag_result
       ELSE /\ pc' = "diag_prompt"
            /\ diag_result' = "False"
    /\ UNCHANGED <<cdVars, results, probes, errors, debug_mode, config_file,
                   conn, fetchVars, syncVars, endVars>>

probe ==
    /\ pc = "probe"
    /\ LET k == Len(results) + 1 IN
       \E o \in ProbeOutcomes :
          /\ o = PlainResponse \/ Faults(probes) < MaxFaults
          /\ probes' = Append(probes, [verb     |-> ProbeVerb(endpoints[k].method),
                                       endpoint |-> endpoints[k].endpoint,
                                       outcome  |-> o])
          /\ results' = Append(results, Result(endpoints[k], o))
          /\ pc' = ProbeLoopNext(k, o)
    /\ UNCHANGED <<cdVars, errors, debug_mode, diag_result, config_file, conn,
                   fetchVars, syncVars, endVars>>

summary ==
    /\ pc = "summary"
    /\ errors' = SelectSeq(results, IsIssue)
    /\ debug_mode' = (\E k \in 1..Len(results) : results[k].debug_mode)
    /\ diag_result' = IF Ready(errors') THEN "True" ELSE "False"
    /\ pc' = "diag_prompt"
    /\ UNCHANGED <<cdVars, results, probes, config_file, conn, fetchVars,
                   syncVars, endVars>>

diag_press_enter ==
    /\ pc \in {"diag_prompt", "diag_error_prompt"}
    /\ exit_code' = IF pc = "diag_prompt" /\ diag_result = "True" THEN <<0>> ELSE <<1>>
    /\ pc' = "exited"
    /\ UNCHANGED <<cdVars, diagVars, config_file, conn, fetchVars, syncVars,
                   caught, uncaught>>

diag_prompt_eof ==
    /\ pc \in {"diag_prompt", "diag_error_prompt"}
    /\ IF pc = "diag_prompt"
       THEN /\ caught' = "Exception"
            /\ pc' = "diag_error_prompt"
            /\ UNCHANGED <<exit_code, uncaught>>
       ELSE /\ uncaught' = "EOFError"
            /\ exit_code' = <<1>>
            /\ pc' = "exited"
            /\ UNCHANGED caught
    /\ UNCHANGED <<cdVars, diagVars, config_file, conn, fetchVars, syncVars>>

DiagPcs == {"diag_load_config", "diag_test", "probe", "summary", "diag_prompt",
            "diag_error_prompt"}

diag_keyboard_interrupt ==
    /\ pc \in DiagPcs
    /\ uncaught' = "KeyboardInterrupt"
    /\ \E code \in UncaughtInterruptCodes : exit_code' = <<code>>
    /\ pc' = "exited"
    /\ UNCHANGED <<cdVars, diagVars, config_file, conn, fetchVars, syncVars,
                   caught>>

DiagNext ==
    \/ diag_load_config
    \/ test_api_endpoints
    \/ probe
    \/ summary
    \/ diag_press_enter
    \/ diag_prompt_eof
    \/ diag_keyboard_interrupt

DiagSpec == DiagInit /\ [][DiagNext]_vars


\* the server answered the probe with a status below 500
Answered(o) == o.kind = "response" /\ o.status_code < 500

\* test_api_endpoints has returned after probing
Probed == HasApiUrlAndKey(config_file) /\ diag_result # "none"

C14_ReadinessAndExitCode ==
    /\ diag_result # "none" =>
          (diag_result = "True" <=>
              /\ Len(results) = 8
              /\ \A k \in 1..8 : results[k].status = "AVAILABLE")
    /\ pc = "exited" => (exit_code = <<0>> <=> diag_result = "True")

\* C14 (amended): test_api_endpoints returns True if and only if all eight
\* endpoints were probed and classified AVAILABLE, an endpoint being
\* AVAILABLE exactly when it answered with a status below 500; the exit
\* code is 0 only then, and exactly when moreover the closing prompt was
\* answered with Enter: end-of-input at the prompt gives exit code 1 and a
\* Ctrl-C a non-zero code although the readiness was True.
C14_Readiness ==
    /\ \A k \in 1..Len(results) :
          results[k].status = "AVAILABLE" <=> Answered(probes[k].outcome)
    /\ diag_result # "none" =>
          (diag_result = "True" <=>
              /\ Len(results) = 8
              /\ \A k \in 1..8 : results[k].status = "AVAILABLE")
    /\ pc = "exited" =>
          /\ Len(exit_code) = 1
          /\ exit_code = <<0>> <=>
                (diag_result = "True" /\ caught = "none" /\ uncaught = "none")

\* C14 witness: all eight endpoints AVAILABLE and readiness True, but the
\* prompt met end-of-input: exit code 1
C14_Witness ==
    /\ pc = "exited"
    /\ diag_result = "True"
    /\ Len(results) = 8
    /\ caught = "Exception"
    /\ uncaught = "none"
    /\ exit_code = <<1>>

\* the results recorded for the endpoints that did not answer below 500
RECURSIVE Issues(_, _)
Issues(recorded, sent) ==
    IF recorded = << >> THEN << >>
    ELSE (IF Answered(Head(sent).outcome) THEN << >> ELSE <<Head(recorded)>>)
         \o Issues(Tail(recorded), Tail(sent))

\* C15: a timeout, connection failure or other exception on one endpoint
\* does not stop the probe loop: exactly one result is recorded per probe,
\* in the order of the endpoint list, with the status of its outcome; once
\* test_api_endpoints has returned from a configuration that has api.url and
\* api.key, all eight endpoints have been probed, the issues list is exactly
\* the results whose status is not AVAILABLE, and the readiness is False
\* when there is an issue.
C15_ProbeFailuresIsolated ==
    /\ Len(results) = Len(probes)
    /\ Len(results) <= Len(endpoints)
    /\ \A k \in 1..Len(results) :
          /\ results[k].endpoint = endpoints[k].endpoint
          /\ results[k].method = endpoints[k].method
          /\ probes[k].outcome.kind = "Timeout" <=> results[k].status = "TIMEOUT"
          /\ probes[k].outcome.kind = "ConnectionError" <=>
                 results[k].status = "CONNECTION ERROR"
    /\ pc = "probe" => Len(results) < Len(endpoints)
    /\ pc = "summary" => Len(results) = Len(endpoints)
    /\ Probed =>
          /\ Len(results) = Len(endpoints)
          /\ errors = Issues(results, probes)
          /\ \A k \in 1..Len(results) :
                results[k].status # "AVAILABLE" <=>
                    \E e \in 1..Len(errors) : errors[e] = results[k]
          /\ errors # << >> => diag_result = "False"

\* C15 witness: the third endpoint timed out and the seven others answered
\* 200: readiness False, and the only issue is that endpoint with status
\* TIMEOUT
C15_Witness ==
    /\ Probed
    /\ probes[3].outcome.kind = "Timeout"
    /\ \A k \in (1..8) \ {3} : probes[k].outcome = PlainResponse
    /\ diag_result = "False"
    /\ errors = << [endpoint   |-> "/api/sync/productbatches/clear",
                    method     |-> "DELETE",
                    status     |-> "TIMEOUT",
                    debug_mode |-> FALSE] >>

\* C16: an endpoint's debug_mode flag is true exactly when a response was
\* received and its body contains the marker, whatever its status code and
\* classification; the summary's flag is true exactly when some endpoint's
\* flag is, and the readiness depends on the classifications alone.
C16_DebugModeDetection ==
    /\ \A k \in 1..Len(results) :
          results[k].debug_mode <=>
              (probes[k].outcome.kind = "response" /\ probes[k].outcome.marker)
    /\ diag_result = "none" => ~debug_mode
    /\ Probed =>
          /\ debug_mode <=> \E k \in 1..Len(results) : results[k].debug_mode
          /\ diag_result = "True" <=>
                \A k \in 1..Len(results) : Answered(probes[k].outcome)

\* C16 witness: one endpoint answered 500 with the marker in its body (ERROR,
\* debug_mode true), another answered 200 with the marker; the summary flags
\* debug mode
C16_Witness ==
    /\ Probed
    /\ debug_mode
    /\ \E k \in 1..8 : results[k].debug_mode /\ results[k].status = "ERROR"
    /\ \E k \in 1..8 : /\ results[k].debug_mode
                       /\ results[k].status = "AVAILABLE"
                       /\ results[k].status_code = 200


(***************************************************************************)
(* Progress of sync_data_to_api.  The program is one thread: once the      *)
(* function is entered, its next statement runs; requests.post returns or  *)
(* raises within its 180-second timeout and time.sleep(2) returns.  The    *)
(* user's Ctrl-C and the console are under no such obligation.             *)
(***************************************************************************)
SyncStep ==
    \/ sync_data_to_api
    \/ next_table
    \/ post
    \/ sleep
    \/ check_chunk

\* What fetch_data can hand over: a result list for every table, within the
\* bound on chunks that execute_query keeps
Snapshots ==
    {d \in [{tables[t] : t \in 1..Len(tables)} -> RowChoices] :
        SumChunks(d, DOMAIN d) <= MaxChunks}

\* main is about to call sync_data_to_api(data, config): the configuration
\* was loaded, the connection is open and every query has run
LiveInit ==
    /\ pc = "sync"
    /\ config_file \in {cfg \in ConfigFiles : HasDatabaseFields(cfg)}
    /\ conn = "open"
    /\ i = 1
    /\ data \in Snapshots
    /\ queries = Len(tables)
    /\ qfailed = {}
    /\ table_index = 1
    /\ chunks = << >>
    /\ chunk_index = 1
    /\ retry = 0
    /\ success = FALSE
    /\ attempts = << >>
    /\ backoff = FALSE
    /\ total_posts = 0
    /\ last_post = NoChunk
    /\ ok_chunks = {}
    /\ exhausted = NoChunk
    /\ synced = {}
    /\ sync_result = "none"
    /\ caught = "none"
    /\ exit_code = << >>
    /\ uncaught = "none"
    /\ ChunkIdle
    /\ DiagIdle

LiveNext ==
    \/ SyncStep
    \/ keyboard_interrupt

LiveSpec == LiveInit /\ [][LiveNext]_vars /\ WF_vars(SyncStep)

\* sync_data_to_api has returned, or a Ctrl-C took the run out of it
Returned == sync_result \in {"True", "False"}

Interrupted == caught = "KeyboardInterrupt"

\* C21: once sync_data_to_api is entered it eventually returns True or False
\* unless a Ctrl-C arrives, and at every moment the number of POST requests
\* issued is at most 3 times the number of chunks of the snapshots.
C21_Termination ==
    /\ [](total_posts > 0 =>
            total_posts <= max_retries * Cardinality(DueChunks))
    /\ (pc = "sync") ~> (Returned \/ Interrupted)

\* C21 witness: a run without interrupt in which the only chunk failed three
\* times: sync_data_to_api returned False after exactly 3 POST requests
C21_Witness ==
    /\ Returned
    /\ ~Interrupted
    /\ total_posts > 0
    /\ total_posts = max_retries * Cardinality(DueChunks)

====
